---- MODULE Spec2Model ----
(***************************************************************************)
(* webtail: the Docker watcher (container discovery and proxy lifecycle)   *)
(* and the shutdown path of main.  Strings are sequences of one-character  *)
(* strings, so that ToLower, TrimPrefix, Itoa and Sprintf are computed.    *)
(***************************************************************************)
EXTENDS Integers, Sequences, FiniteSets, TLC

(* ---------------------------------------------------------------------- *)
(* Bounds                                                                   *)
(* ---------------------------------------------------------------------- *)
\* values the platform sends on the channels of the start-event stream in
\* one run (container starts before the subscription count too)
MaxEvents == 2
\* values the platform sends on the channels of the stop-event streams in one
\* run (container stops without a subscriber count too)
MaxStops == 1

\* container identities
Containers == {"c1", "c2"}

(* ---------------------------------------------------------------------- *)
(* Strings                                                                  *)
(* ---------------------------------------------------------------------- *)
UpperChars == <<"A","B","C","D","E","F","G","H","I","J","K","L","M",
                "N","O","P","Q","R","S","T","U","V","W","X","Y","Z">>
LowerChars == <<"a","b","c","d","e","f","g","h","i","j","k","l","m",
                "n","o","p","q","r","s","t","u","v","w","x","y","z">>

LowerChar(ch) ==
  IF \E i \in 1..Len(UpperChars) : UpperChars[i] = ch
    THEN LowerChars[CHOOSE i \in 1..Len(UpperChars) : UpperChars[i] = ch]
    ELSE ch

\* strings.ToLower
ToLower(s) == [i \in 1..Len(s) |-> LowerChar(s[i])]

\* a container name used as inspected, with its leading slash
TrimSlashKeeps(s) == s

\* strings.TrimPrefix(s, "/")
TrimSlash(s) == IF Len(s) >= 1 /\ s[1] = "/" THEN Tail(s) ELSE s

Digits == <<"0","1","2","3","4","5","6","7","8","9">>

RECURSIVE Itoa(_)
\* strconv.Itoa for n >= 0
Itoa(n) == IF n < 10 THEN <<Digits[n + 1]>>
           ELSE Itoa(n \div 10) \o <<Digits[(n % 10) + 1]>>

STrue == <<"t","r","u","e">>
SFalse == <<"f","a","l","s","e">>

\* strconv.ParseBool: the values it accepts
ParseBoolTrue == { <<"1">>, <<"t">>, <<"T">>, <<"T","R","U","E">>, STrue,
                   <<"T","r","u","e">> }
ParseBoolFalse == { <<"0">>, <<"f">>, <<"F">>, <<"F","A","L","S","E">>, SFalse,
                    <<"F","a","l","s","e">> }

\* a parseBoolLabel that folds the case first, as the webtail.enabled test
\* does
parseBoolLabelFold(value, defaultVal) ==
  IF value = <<>> THEN defaultVal
  ELSE IF ToLower(value) \in ParseBoolTrue THEN TRUE
  ELSE IF ToLower(value) \in ParseBoolFalse THEN FALSE
  ELSE defaultVal

\* parseBoolLabel(value, defaultVal)
parseBoolLabel(value, defaultVal) ==
  IF value = <<>> THEN defaultVal
  ELSE IF value \in ParseBoolTrue THEN TRUE
  ELSE IF value \in ParseBoolFalse THEN FALSE
  ELSE defaultVal

(* ---------------------------------------------------------------------- *)
(* Labels and exposed ports                                                 *)
(* ---------------------------------------------------------------------- *)
labelEnabled == "webtail.enabled"
labelProtocol == "webtail.protocol"
labelPort == "webtail.port"
labelNodeName == "webtail.node_name"
labelPassHostHeader == "webtail.pass_host_header"
labelTrustForwardHeader == "webtail.trust_forward_header"
defaultProtocol == <<"h","t","t","p">>

\* a Go map lookup labels[k]: the zero value "" when the key is absent
Label(labels, k) == IF k \in DOMAIN labels THEN labels[k] ELSE <<>>

RECURSIVE SetToSeq(_)
\* the range loop over the port set, in some order
SetToSeq(S) == IF S = {} THEN <<>>
               ELSE LET x == CHOOSE y \in S : TRUE
                    IN <<x>> \o SetToSeq(S \ {x})

RECURSIVE Insert(_, _)
Insert(x, s) == IF s = <<>> THEN <<x>>
                ELSE IF x <= Head(s) THEN <<x>> \o s
                ELSE <<Head(s)>> \o Insert(x, Tail(s))

RECURSIVE SortInts(_)
\* sort.Ints
SortInts(s) == IF s = <<>> THEN <<>> ELSE Insert(Head(s), SortInts(Tail(s)))

\* a loop that keeps the port number zero too
KeepPortZero(portNum) == portNum >= 0

\* the port numbers kept by the loop of getLowestExposedPort
KeepPort(portNum) == portNum > 0

RECURSIVE CollectPorts(_)
CollectPorts(s) ==
  IF s = <<>> THEN <<>>
  ELSE IF KeepPort(Head(s).num) THEN <<Head(s).num>> \o CollectPorts(Tail(s))
  ELSE CollectPorts(Tail(s))

\* which element of the sorted slice is returned
PickPort(sorted) == sorted[1]

\* getLowestExposedPort: "" when nothing usable is exposed
getLowestExposedPort(exposedPorts) ==
  IF Cardinality(exposedPorts) = 0 THEN <<>>
  ELSE LET ports == CollectPorts(SetToSeq(exposedPorts))
       IN IF Len(ports) = 0 THEN <<>>
          ELSE Itoa(PickPort(SortInts(ports)))

\* fmt.Sprintf("%s://%s.%s:%s", protocol, containerName, network, port)
TargetURL(protocol, containerName, network, port) ==
  protocol \o <<":","/","/">> \o containerName \o <<".">> \o network
           \o <<":">> \o port

\* dw.dockerNetwork
dockerNetwork == <<"n","e","t">>

\* an enabled test that only looks for the label, not at its value
IsEnabledAnyValue(labels) == labelEnabled \in DOMAIN labels

\* is the container enabled (handleContainer, the webtail.enabled test)
IsEnabled(labels) ==
  /\ labelEnabled \in DOMAIN labels
  /\ ToLower(labels[labelEnabled]) = STrue

\* a port resolution that falls back to port 80 when nothing is detected
ResolvePortDefault(m) ==
  IF Label(m.labels, labelPort) # <<>> THEN Label(m.labels, labelPort)
  ELSE IF getLowestExposedPort(m.exposed) = <<>> THEN <<"8","0">>
  ELSE getLowestExposedPort(m.exposed)

\* the port handleContainer settles on: the label, else the detected one
ResolvePort(m) ==
  IF Label(m.labels, labelPort) # <<>> THEN Label(m.labels, labelPort)
  ELSE getLowestExposedPort(m.exposed)

\* handleContainer from the labels to the ServiceConfig: what it decides for
\* an inspected container m = [name, labels, exposed]
Resolve(m) ==
  IF ~IsEnabled(m.labels) THEN [eligible |-> FALSE, reason |-> "disabled"]
  ELSE IF ResolvePort(m) = <<>> THEN [eligible |-> FALSE, reason |-> "noport"]
  ELSE LET containerName == TrimSlash(m.name)
           nodeName == IF Label(m.labels, labelNodeName) = <<>>
                         THEN containerName
                         ELSE Label(m.labels, labelNodeName)
           protocol == IF Label(m.labels, labelProtocol) = <<>>
                         THEN defaultProtocol
                         ELSE Label(m.labels, labelProtocol)
       IN [eligible |-> TRUE,
           port |-> ResolvePort(m),
           Target |-> TargetURL(protocol, containerName, dockerNetwork,
                                ResolvePort(m)),
           NodeName |-> nodeName,
           PassHostHeader |->
             parseBoolLabel(Label(m.labels, labelPassHostHeader), FALSE),
           TrustForwardHeader |->
             parseBoolLabel(Label(m.labels, labelTrustForwardHeader), FALSE)]

(* ---------------------------------------------------------------------- *)
(* Inspected containers                                                     *)
(* ---------------------------------------------------------------------- *)
Port(n) == [num |-> n, proto |-> "tcp"]

\* what ContainerInspect returns for the containers of the watcher runs
MetaOf(c) ==
  IF c = "c1"
    THEN [name |-> <<"/","a","p","p">>,
          labels |-> (labelEnabled :> STrue),
          exposed |-> {Port(8080), Port(80)}]
    ELSE [name |-> <<"/","d","b">>,
          labels |-> (labelEnabled :> <<"T","R","U","E">>)
                       @@ (labelPort :> <<"9","0">>),
          exposed |-> {}]

\* label values and exposed ports of the inspected containers of the
\* label runs
EnabledValues == { <<>>, STrue, <<"T","R","U","E">>, <<"T","r","u","E">>,
                   SFalse, <<"y","e","s">>, <<"1">>, <<"t","r","u","e","x">> }
PortValues == { <<>>, <<"9","0">> }
ExposedSets == { {}, {Port(0)}, {Port(8080)}, {Port(8080), Port(80)},
                 {Port(0), Port(443), Port(80)},
                 {Port(8080), [num |-> 8080, proto |-> "udp"]} }
NameValues == { <<"/","a","p","p">>, <<"a","p","p">> }
FlagValues == { <<>>, STrue, SFalse, <<"1">>, <<"t","R","U","E">>,
                <<"y","e","s">> }
ProtocolValues == { <<>>, <<"h","t","t","p","s">> }
NodeNameValues == { <<>>, <<"w","e","b">> }

\* a label map with the keys ks, the key k having the value v
WithLabel(labels, k, v) == (k :> v) @@ labels

\* the label maps ls, each also with the key k set to a value of vs
OptLabel(ls, k, vs) == ls \cup { WithLabel(l, k, v) : l \in ls, v \in vs }

LabelSets ==
  LET none == [k \in {} |-> <<>>]
      en == {none} \cup { WithLabel(none, labelEnabled, v) : v \in EnabledValues }
      on == { labelEnabled :> STrue,
              (labelEnabled :> <<"T","R","U","E">>) @@ (labelPort :> <<"9","0">>) }
  IN OptLabel(en, labelPort, PortValues)
       \cup OptLabel(OptLabel(on, labelPassHostHeader, FlagValues),
                     labelTrustForwardHeader, FlagValues)
       \cup OptLabel(OptLabel(on, labelProtocol, ProtocolValues),
                     labelNodeName, NodeNameValues)

LabelMetas ==
  { [name |-> n, labels |-> l, exposed |-> e] :
      n \in NameValues, l \in LabelSets, e \in ExposedSets }

(* ---------------------------------------------------------------------- *)
(* State                                                                    *)
(* ---------------------------------------------------------------------- *)
VARIABLES
  meta,         \* platform: container -> what inspection returns
  running,      \* platform: container -> is it running
  emitted,      \* platform: start events emitted so far
  stops,        \* platform: container stops so far
  subscribed,   \* Start(): the start-event subscription exists
  evq,          \* eventsChan of Start(): start events not yet received
  streamErr,    \* errChan of Start() has a value
  ctlpc,        \* main: where it is in Start(), the wait and Stop()
  scanList,     \* scanExistingContainers: containers still to handle
  hcpc,         \* handleContainer: where the one running call is
  hcId,         \* handleContainer: its containerID
  hcCfg,        \* handleContainer: port, target, nodeName and the flags;
                \* after it returned, the return statement it left by
  looppc,       \* the event loop goroutine of Start()
  handles,      \* every Proxy created, with the goroutine that starts it
  proxies,      \* dw.proxies: container -> handle (0: no entry)
  cancelled,    \* dw.ctx is done
  wg,           \* dw.wg counter
  toStop,       \* Stop(): proxiesToStop
  stopWg,       \* Stop(): stopWg counter
  clientClosed, \* number of dw.client.Close() calls
  services,     \* main: Stop() of each config-based proxy: none, stopping,
                \* stopped
  mu            \* dw.mu: the task that holds it

vars == <<meta, running, emitted, stops, subscribed, evq, streamErr, ctlpc,
          scanList, hcpc, hcId, hcCfg, looppc, handles, proxies, cancelled, wg,
          toStop, stopWg, clientClosed, services, mu>>

\* config-based services of main
Services == {"s1"}

H == 1..Len(handles)

\* NewProxy and the goroutine of handleContainer that starts it.  The
\* ServiceConfig of the proxy is never read again by the watcher; it is the
\* value of hcCfg when the proxy is made.
NewHandle(id) ==
  [cid |-> id,
   gpc |-> "start",      \* the goroutine: proxy.Start() is in flight
   st |-> "calling",     \* proxy.Start(): calling, ok, err
   stop |-> "none",      \* proxy.Stop(): none, stopping, stopped
   stopCalls |-> 0,      \* number of proxy.Stop() calls
   sub |-> FALSE,        \* watchContainerStop has subscribed
   sev |-> FALSE,        \* eventsChan of watchContainerStop has an event
   serr |-> FALSE,       \* errChan of watchContainerStop has a value
   taken |-> 0]          \* stopProxy: the proxy it found

\* dw.mu is free
NoHolder == <<"none">>

\* a task that returns with dw.mu still locked
UnlockMissing(t) == t

\* dw.mu.Unlock() by the task t that holds it
Unlock(t) == NoHolder

\* dw.mu.Lock() of the task t when the lock is free, nothing for the task
\* that holds it already; the other tasks block
Lockable(t) == mu \in {NoHolder, t}

\* the locals of a handleContainer that is not running
NoCfg == [eligible |-> FALSE, reason |-> "none"]

\* the watcher after NewDockerWatcher, main after it spawned the start
\* goroutines of the config-based proxies
InitWatcher ==
  /\ emitted = 0
  /\ stops = 0
  /\ subscribed = FALSE
  /\ evq = <<>>
  /\ streamErr = FALSE
  /\ ctlpc = "start"
  /\ scanList = <<>>
  /\ hcpc = "idle"
  /\ hcId = ""
  /\ hcCfg = NoCfg
  /\ looppc = "none"
  /\ handles = <<>>
  /\ proxies = [c \in Containers |-> 0]
  /\ cancelled = FALSE
  /\ wg = 0
  /\ toStop = {}
  /\ stopWg = 0
  /\ clientClosed = 0
  /\ services = [s \in Services |-> "none"]
  /\ mu = NoHolder

Init ==
  /\ meta = [c \in Containers |-> MetaOf(c)]
  /\ running = [c \in Containers |-> FALSE]
  /\ InitWatcher

(* ---------------------------------------------------------------------- *)
(* The platform (Docker daemon)                                             *)
(* ---------------------------------------------------------------------- *)
platformVars == <<meta, running, emitted, stops>>
streamVars == <<subscribed, evq, streamErr>>
mainVars == <<ctlpc, scanList, services>>
hcVars == <<hcpc, hcId, hcCfg>>
stopVars == <<toStop, stopWg, clientClosed>>

\* a subscription that goes on delivering after its error
DeliversAfterError == subscribed /\ ~cancelled

\* the start-event stream of Start() delivers to a loop that still reads it
Delivers == subscribed /\ ~streamErr /\ ~cancelled

\* a container starts: the daemon emits a start event
ContainerStart(c) ==
  /\ ~running[c]
  /\ emitted < MaxEvents
  /\ running' = [running EXCEPT ![c] = TRUE]
  /\ emitted' = emitted + 1
  /\ evq' = IF Delivers THEN Append(evq, c) ELSE evq
  /\ UNCHANGED <<meta, stops, subscribed, streamErr, mainVars, hcVars, looppc,
                 handles, proxies, cancelled, wg, stopVars>>
  /\ UNCHANGED mu

\* a start event is delivered a second time for a running container
DuplicateStart(c) ==
  /\ running[c]
  /\ Delivers
  /\ emitted < MaxEvents
  /\ emitted' = emitted + 1
  /\ evq' = Append(evq, c)
  /\ UNCHANGED <<meta, running, stops, subscribed, streamErr, mainVars, hcVars,
                 looppc, handles, proxies, cancelled, wg, stopVars>>
  /\ UNCHANGED mu

\* the stream of watchContainerStop of handle h delivers events
Watching(h) == handles[h].sub /\ handles[h].gpc = "watch" /\ ~cancelled

\* a container stops: the daemon emits stop, die or kill to the subscribers
ContainerStop(c) ==
  /\ running[c]
  /\ stops < MaxStops
  /\ running' = [running EXCEPT ![c] = FALSE]
  /\ stops' = stops + 1
  /\ handles' = [h \in H |->
       IF handles[h].cid = c /\ Watching(h)
         THEN [handles[h] EXCEPT !.sev = TRUE]
         ELSE handles[h]]
  /\ UNCHANGED <<meta, emitted, streamVars, mainVars, hcVars, looppc, proxies,
                 cancelled, wg, stopVars>>
  /\ UNCHANGED mu

\* the start-event stream of Start() fails
StreamError ==
  /\ subscribed
  /\ ~streamErr
  /\ looppc \in {"select", "handling"}
  /\ emitted < MaxEvents
  /\ emitted' = emitted + 1
  /\ streamErr' = TRUE
  /\ UNCHANGED <<meta, running, stops, subscribed, evq, mainVars, hcVars, looppc,
                 handles, proxies, cancelled, wg, stopVars>>
  /\ UNCHANGED mu

\* the stream of one watchContainerStop fails
WatchStreamError(h) ==
  /\ handles[h].sub
  /\ handles[h].gpc = "watch"
  /\ ~handles[h].serr
  /\ stops < MaxStops
  /\ stops' = stops + 1
  /\ handles' = [handles EXCEPT ![h].serr = TRUE]
  /\ UNCHANGED <<meta, running, emitted, streamVars, mainVars, hcVars, looppc, proxies,
                 cancelled, wg, stopVars>>
  /\ UNCHANGED mu

(* ---------------------------------------------------------------------- *)
(* DockerWatcher.Start and scanExistingContainers                           *)
(* ---------------------------------------------------------------------- *)
\* the orders in which ContainerList can return the set S
Orders(S) == { o \in [1..Cardinality(S) -> S] :
                 \A i, j \in 1..Cardinality(S) : o[i] = o[j] => i = j }

\* Start(): scanExistingContainers lists the running containers, or fails
ScanList ==
  /\ ctlpc = "start"
  /\ ctlpc' = "scan"
  /\ \/ scanList' = <<>>
     \/ \E o \in Orders({c \in Containers : running[c]}) : scanList' = o
  /\ UNCHANGED <<platformVars, streamVars, services, hcVars, looppc, handles,
                 proxies, cancelled, wg, stopVars>>
  /\ UNCHANGED mu

\* a scan that returns at the first container whose handling failed
ScanRemainingAborts(list, at) == IF at = "error" THEN <<>> ELSE list

\* scanExistingContainers: the containers the loop still goes through after
\* handleContainer returned by the return statement at; an error is logged
\* and the loop goes on
ScanRemaining(list, at) == list

\* scanExistingContainers: the loop calls handleContainer(c.ID)
ScanNext ==
  /\ ctlpc = "scan"
  /\ hcpc = "idle"
  /\ ScanRemaining(scanList, hcCfg.reason) # <<>>
  /\ hcpc' = "inspect"
  /\ hcId' = Head(scanList)
  /\ hcCfg' = NoCfg
  /\ scanList' = Tail(scanList)
  /\ UNCHANGED <<platformVars, streamVars, ctlpc, services, looppc, handles,
                 proxies, cancelled, wg, stopVars>>
  /\ UNCHANGED mu

\* dw.wg.Add(1) before a goroutine is spawned
WgAdd(n) == n + 1

\* Start(): after the scan, subscribe to start events and spawn the loop
StartSubscribe ==
  /\ ctlpc = "scan"
  /\ hcpc = "idle"
  /\ ScanRemaining(scanList, hcCfg.reason) = <<>>
  /\ subscribed' = TRUE
  /\ wg' = WgAdd(wg)
  /\ looppc' = "select"
  /\ ctlpc' = "running"
  /\ UNCHANGED <<platformVars, evq, streamErr, scanList, services, hcVars,
                 handles, proxies, cancelled, stopVars>>
  /\ UNCHANGED mu

(* ---------------------------------------------------------------------- *)
(* The event loop goroutine                                                 *)
(* ---------------------------------------------------------------------- *)
\* select: <-dw.ctx.Done()
LoopCancel ==
  /\ looppc = "select"
  /\ cancelled
  /\ looppc' = "exited"
  /\ wg' = wg - 1
  /\ UNCHANGED <<platformVars, streamVars, mainVars, hcVars, handles, proxies,
                 cancelled, stopVars>>
  /\ UNCHANGED mu

\* select: <-errChan
LoopError ==
  /\ looppc = "select"
  /\ streamErr
  /\ looppc' = "exited"
  /\ wg' = wg - 1
  /\ UNCHANGED <<platformVars, streamVars, mainVars, hcVars, handles, proxies,
                 cancelled, stopVars>>
  /\ UNCHANGED mu

\* select: <-eventsChan, then handleEvent calls handleContainer
LoopEvent ==
  /\ looppc = "select"
  /\ evq # <<>>
  /\ evq' = Tail(evq)
  /\ looppc' = "handling"
  /\ hcpc' = "inspect"
  /\ hcId' = Head(evq)
  /\ hcCfg' = NoCfg
  /\ UNCHANGED <<platformVars, subscribed, streamErr, mainVars, handles,
                 proxies, cancelled, wg, stopVars>>
  /\ UNCHANGED mu

(* ---------------------------------------------------------------------- *)
(* handleContainer                                                          *)
(* ---------------------------------------------------------------------- *)
\* a handleContainer whose failed inspection ends the event loop
HcReturnEndsLoop(at) ==
  /\ hcpc' = "idle"
  /\ hcCfg' = [eligible |-> FALSE, reason |-> at]
  /\ looppc' = IF looppc = "handling"
                 THEN (IF at = "error" THEN "exited" ELSE "select")
                 ELSE looppc

\* handleContainer returns to its caller, the scan or the event loop, by
\* the return statement at: "error" (the failed inspection, the one return
\* of an error), "disabled", "noport", "exists", "started"
HcReturn(at) ==
  /\ hcpc' = "idle"
  /\ hcCfg' = [eligible |-> FALSE, reason |-> at]
  /\ looppc' = IF looppc = "handling" THEN "select" ELSE looppc

\* ContainerInspect and the labels: an error, a skip, or on to the guard
HcInspect ==
  /\ hcpc = "inspect"
  /\ \/ HcReturn("error")
     \/ /\ ~cancelled
        /\ IF Resolve(meta[hcId]).eligible
             THEN /\ hcpc' = "check"
                  /\ hcCfg' = Resolve(meta[hcId])
                  /\ looppc' = looppc
             ELSE HcReturn(Resolve(meta[hcId]).reason)
  /\ UNCHANGED <<platformVars, streamVars, mainVars, hcId, handles, proxies,
                 cancelled, wg, stopVars>>
  /\ UNCHANGED mu

\* the duplicate guard: is there an entry for the container
Exists(reg, id) == reg[id] # 0

\* the guard under dw.mu, then NewProxy with the goroutine that starts it
HcCheck ==
  /\ Lockable(<<"hc">>)
  /\ hcpc = "check"
  /\ IF Exists(proxies, hcId)
       THEN /\ UNCHANGED <<handles, wg>>
            /\ HcReturn("exists")
       ELSE /\ handles' = Append(handles, NewHandle(hcId))
            /\ wg' = WgAdd(wg)
            /\ HcReturn("started")
  /\ UNCHANGED <<platformVars, streamVars, mainVars, hcId, proxies, cancelled,
                 stopVars>>
  /\ mu' = Unlock(<<"hc">>)

(* ---------------------------------------------------------------------- *)
(* The goroutine of handleContainer: start, register, watch, tear down      *)
(* ---------------------------------------------------------------------- *)
GoFrame == UNCHANGED <<platformVars, streamVars, mainVars, hcVars, looppc,
                       cancelled, stopVars>>

\* a goroutine that registers the proxy whatever Start() returned
AfterStartIgnoresErr(err) == "insert"

\* a goroutine that logs the failed Start() and goes on to watch the container
AfterStartWatches(err) == IF err THEN "subscribe" ELSE "insert"

\* where the goroutine goes when proxy.Start() returns err
AfterStart(err) == IF err THEN "exited" ELSE "insert"

\* proxy.Start() returns: on an error the goroutine logs and returns
GoStartReturn(h) ==
  /\ handles[h].gpc = "start"
  /\ \E err \in BOOLEAN :
       /\ handles' = [handles EXCEPT
            ![h].st = IF err THEN "err" ELSE "ok",
            ![h].gpc = AfterStart(err)]
       /\ wg' = IF AfterStart(err) = "exited" THEN wg - 1 ELSE wg
  /\ UNCHANGED proxies
  /\ GoFrame
  /\ UNCHANGED mu

\* dw.proxies[containerID] = proxy, under dw.mu
GoInsert(h) ==
  /\ Lockable(<<"go", h>>)
  /\ handles[h].gpc = "insert"
  /\ proxies' = [proxies EXCEPT ![handles[h].cid] = h]
  /\ handles' = [handles EXCEPT ![h].gpc = "subscribe"]
  /\ UNCHANGED wg
  /\ GoFrame
  /\ mu' = Unlock(<<"go", h>>)

\* watchContainerStop: dw.client.Events for stop, die and kill
GoSubscribe(h) ==
  /\ handles[h].gpc = "subscribe"
  /\ handles' = [handles EXCEPT ![h].gpc = "watch", ![h].sub = TRUE]
  /\ UNCHANGED <<proxies, wg>>
  /\ GoFrame
  /\ UNCHANGED mu

\* watchContainerStop select: <-dw.ctx.Done()
GoWatchCancel(h) ==
  /\ handles[h].gpc = "watch"
  /\ cancelled
  /\ handles' = [handles EXCEPT ![h].gpc = "exited", ![h].sev = FALSE]
  /\ wg' = wg - 1
  /\ UNCHANGED proxies
  /\ GoFrame
  /\ UNCHANGED mu

\* watchContainerStop select: <-errChan
GoWatchError(h) ==
  /\ handles[h].gpc = "watch"
  /\ handles[h].serr
  /\ handles' = [handles EXCEPT ![h].gpc = "exited", ![h].sev = FALSE]
  /\ wg' = wg - 1
  /\ UNCHANGED proxies
  /\ GoFrame
  /\ UNCHANGED mu

\* the events the filter of watchContainerStop lets through
StopActions == {"stop", "die", "kill"}

\* watchContainerStop select: <-eventsChan, then the test of event.Action
GoWatchEvent(h) ==
  /\ handles[h].gpc = "watch"
  /\ handles[h].sev
  /\ \E action \in StopActions :
       handles' = [handles EXCEPT
         ![h].gpc = IF action = "stop" \/ action = "die" \/ action = "kill"
                      THEN "sp_take" ELSE "watch",
         ![h].sev = FALSE]
  /\ UNCHANGED <<proxies, wg>>
  /\ GoFrame
  /\ UNCHANGED mu

\* a stopProxy that leaves the entry in the map
DeleteKeeps(reg, id) == reg

\* stopProxy: the registry after the lookup of id
Delete(reg, id) == [reg EXCEPT ![id] = 0]

\* stopProxy: look up and delete under dw.mu; return when there was no entry
GoSpTake(h) ==
  /\ Lockable(<<"go", h>>)
  /\ handles[h].gpc = "sp_take"
  /\ proxies' = Delete(proxies, handles[h].cid)
  /\ IF Exists(proxies, handles[h].cid)
       THEN /\ handles' = [handles EXCEPT
                 ![h].gpc = "sp_stop",
                 ![h].taken = proxies[handles[h].cid]]
            /\ wg' = wg
       ELSE /\ handles' = [handles EXCEPT ![h].gpc = "exited"]
            /\ wg' = wg - 1
  /\ GoFrame
  /\ mu' = Unlock(<<"go", h>>)

\* the call of p.Stop(), which is then in progress
CallStop(hs, p) ==
  [hs EXCEPT ![p].stop = "stopping", ![p].stopCalls = @ + 1]

\* stopProxy: proxy.Stop() is called
GoSpStop(h) ==
  /\ handles[h].gpc = "sp_stop"
  /\ handles' = [CallStop(handles, handles[h].taken)
                   EXCEPT ![h].gpc = "sp_wait"]
  /\ UNCHANGED <<proxies, wg>>
  /\ GoFrame
  /\ UNCHANGED mu

\* stopProxy: proxy.Stop() returns, and the goroutine ends
GoSpStopReturn(h) ==
  /\ handles[h].gpc = "sp_wait"
  /\ handles[handles[h].taken].stop = "stopping"
  /\ handles' = [handles EXCEPT ![handles[h].taken].stop = "stopped",
                                ![h].gpc = "exited"]
  /\ wg' = wg - 1
  /\ UNCHANGED proxies
  /\ GoFrame
  /\ UNCHANGED mu

(* ---------------------------------------------------------------------- *)
(* main: the signal, DockerWatcher.Stop, the config-based proxies           *)
(* ---------------------------------------------------------------------- *)
\* <-sigChan, then dockerWatcher.Stop() begins: dw.cancel()
MainSignal ==
  /\ ctlpc = "running"
  /\ cancelled' = TRUE
  /\ ctlpc' = "stop_drain"
  /\ UNCHANGED <<platformVars, streamVars, scanList, services, hcVars, looppc,
                 handles, proxies, wg, stopVars>>
  /\ UNCHANGED mu

\* Stop(): the proxies collected from the registry
Drained(reg) == { reg[c] : c \in {d \in Containers : reg[d] # 0} }

\* a Stop() that adds to stopWg once more than it spawns stop goroutines
StopWgAddsOneMore(ps) == Cardinality(ps) + 1

\* Stop(): stopWg.Add(1) for each proxy of proxiesToStop
StopWgAdds(ps) == Cardinality(ps)

\* a Stop() that leaves the entries in the map
ReplacedKeeps(reg) == reg

\* Stop(): dw.proxies = make(map[string]*Proxy)
Replaced(reg) == [c \in Containers |-> 0]

\* Stop(): collect and replace the map under dw.mu, one goroutine per proxy
StopDrain ==
  /\ Lockable(<<"main">>)
  /\ ctlpc = "stop_drain"
  /\ toStop' = Drained(proxies)
  /\ stopWg' = StopWgAdds(Drained(proxies))
  /\ proxies' = Replaced(proxies)
  /\ ctlpc' = "stop_wait"
  /\ UNCHANGED <<platformVars, streamVars, scanList, services, hcVars, looppc,
                 handles, cancelled, wg, clientClosed>>
  /\ mu' = Unlock(<<"main">>)

\* Stop(): a stop goroutine calls p.Stop()
DrainStopCall(p) ==
  /\ ctlpc = "stop_wait"
  /\ p \in toStop
  /\ handles[p].stop = "none"
  /\ handles' = CallStop(handles, p)
  /\ UNCHANGED <<platformVars, streamVars, mainVars, hcVars, looppc, proxies,
                 cancelled, wg, stopVars>>
  /\ UNCHANGED mu

\* Stop(): p.Stop() returns in its stop goroutine; stopWg.Done()
DrainStopReturn(p) ==
  /\ ctlpc = "stop_wait"
  /\ p \in toStop
  /\ handles[p].stop = "stopping"
  /\ handles' = [handles EXCEPT ![p].stop = "stopped"]
  /\ stopWg' = stopWg - 1
  /\ UNCHANGED <<platformVars, streamVars, mainVars, hcVars, looppc, proxies,
                 cancelled, wg, toStop, clientClosed>>
  /\ UNCHANGED mu

\* Stop(): stopWg.Wait() is over, dw.client.Close()
\* a Stop() that closes the client without waiting for its stop goroutines
StopWgWaitSkipped(n) == TRUE

\* stopWg.Wait() lets Stop() go on
StopWgWaitOver(n) == n = 0

StopClose ==
  /\ ctlpc = "stop_wait"
  /\ StopWgWaitOver(stopWg)
  /\ clientClosed' = clientClosed + 1
  /\ ctlpc' = "stop_wgwait"
  /\ UNCHANGED <<platformVars, streamVars, scanList, services, hcVars, looppc,
                 handles, proxies, cancelled, wg, toStop, stopWg>>
  /\ UNCHANGED mu

\* a Stop() that does not wait for dw.wg
WgWaitSkipped(n) == TRUE

\* dw.wg.Wait() lets Stop() go on
WgWaitOver(n) == n = 0

\* Stop(): dw.wg.Wait() is over and Stop() returns; main spawns the stop
\* goroutines of the config-based proxies and waits in its select
StopReturn ==
  /\ ctlpc = "stop_wgwait"
  /\ WgWaitOver(wg)
  /\ ctlpc' = "main_select"
  /\ UNCHANGED <<platformVars, streamVars, scanList, services, hcVars, looppc,
                 handles, proxies, cancelled, wg, stopVars>>
  /\ UNCHANGED mu

\* main: a stop goroutine calls p.Stop() of a config-based proxy
ServiceStopCall(s) ==
  /\ ctlpc \in {"main_select", "complete"}
  /\ services[s] = "none"
  /\ services' = [services EXCEPT ![s] = "stopping"]
  /\ UNCHANGED <<platformVars, streamVars, ctlpc, scanList, hcVars, looppc,
                 handles, proxies, cancelled, wg, stopVars>>
  /\ UNCHANGED mu

\* main: p.Stop() of a config-based proxy returns
ServiceStopReturn(s) ==
  /\ services[s] = "stopping"
  /\ services' = [services EXCEPT ![s] = "stopped"]
  /\ UNCHANGED <<platformVars, streamVars, ctlpc, scanList, hcVars, looppc,
                 handles, proxies, cancelled, wg, stopVars>>
  /\ UNCHANGED mu

\* main select: <-done, every config-based proxy has stopped
MainDone ==
  /\ ctlpc = "main_select"
  /\ \A s \in Services : services[s] = "stopped"
  /\ ctlpc' = "complete"
  /\ UNCHANGED <<platformVars, streamVars, scanList, services, hcVars, looppc,
                 handles, proxies, cancelled, wg, stopVars>>
  /\ UNCHANGED mu

\* main select: <-time.After(30 * time.Second)
MainTimeout ==
  /\ ctlpc = "main_select"
  /\ ctlpc' = "complete"
  /\ UNCHANGED <<platformVars, streamVars, scanList, services, hcVars, looppc,
                 handles, proxies, cancelled, wg, stopVars>>
  /\ UNCHANGED mu

(* ---------------------------------------------------------------------- *)
(* Specification                                                            *)
(* ---------------------------------------------------------------------- *)
Platform ==
  \/ \E c \in Containers : ContainerStart(c)
  \/ \E c \in Containers : DuplicateStart(c)
  \/ \E c \in Containers : ContainerStop(c)
  \/ StreamError
  \/ \E h \in H : WatchStreamError(h)

Watcher ==
  \/ ScanList
  \/ ScanNext
  \/ StartSubscribe
  \/ LoopCancel
  \/ LoopError
  \/ LoopEvent
  \/ HcInspect
  \/ HcCheck
  \/ \E h \in H : GoStartReturn(h)
  \/ \E h \in H : GoInsert(h)
  \/ \E h \in H : GoSubscribe(h)
  \/ \E h \in H : GoWatchCancel(h)
  \/ \E h \in H : GoWatchError(h)
  \/ \E h \in H : GoWatchEvent(h)
  \/ \E h \in H : GoSpTake(h)
  \/ \E h \in H : GoSpStop(h)
  \/ \E h \in H : GoSpStopReturn(h)

Main ==
  \/ MainSignal
  \/ StopDrain
  \/ \E p \in H : DrainStopCall(p)
  \/ \E p \in H : DrainStopReturn(p)
  \/ StopClose
  \/ StopReturn
  \/ \E s \in Services : ServiceStopCall(s)
  \/ \E s \in Services : ServiceStopReturn(s)
  \/ MainDone
  \/ MainTimeout

Next == Platform \/ Watcher \/ Main

Spec == Init /\ [][Next]_vars

\* the handles one run can create: one for each start event at most
HandleIds == 1..MaxEvents

\* the steps of the goroutine of handle h that are the watcher's own code
GoStep(h) ==
  /\ h \in H
  /\ \/ GoInsert(h)
     \/ GoSubscribe(h)
     \/ GoWatchCancel(h)
     \/ GoWatchError(h)
     \/ GoWatchEvent(h)
     \/ GoSpTake(h)
     \/ GoSpStop(h)

\* the steps of main and of Start() and Stop() that main runs
MainStep ==
  \/ ScanList
  \/ ScanNext
  \/ StartSubscribe
  \/ StopDrain
  \/ StopClose
  \/ StopReturn
  \/ MainDone
  \/ MainTimeout

\* every goroutine that can run is scheduled.  No fairness for the platform,
\* for the signal, or for the return of a proxy's Start() or Stop().
Fairness ==
  /\ WF_vars(MainStep)
  /\ WF_vars(LoopCancel \/ LoopError \/ LoopEvent)
  /\ WF_vars(HcInspect \/ HcCheck)
  /\ \A h \in HandleIds : WF_vars(GoStep(h))
  /\ \A p \in HandleIds : WF_vars(p \in H /\ DrainStopCall(p))
  /\ \A s \in Services : WF_vars(ServiceStopCall(s))

FairSpec == Spec /\ Fairness

(* ---------------------------------------------------------------------- *)
(* Label runs: one running container with any of the label sets, taken      *)
(* through the scan of Start()                                              *)
(* ---------------------------------------------------------------------- *)
LabelInit ==
  /\ meta \in { [c \in Containers |-> IF c = "c1" THEN m ELSE MetaOf(c)] :
                  m \in LabelMetas }
  /\ running = [c \in Containers |-> c = "c1"]
  /\ InitWatcher

LabelNext ==
  \/ ScanList
  \/ ScanNext
  \/ HcInspect
  \/ HcCheck
  \/ \E h \in H : GoStartReturn(h)
  \/ \E h \in H : GoInsert(h)

LabelSpec == LabelInit /\ [][LabelNext]_vars

(* ---------------------------------------------------------------------- *)
(* Lock runs: dw.mu.Lock() is a step of its own, so that a task holds the   *)
(* lock in a state; one start event per container, no stream errors         *)
(* ---------------------------------------------------------------------- *)
\* the tasks that use dw.mu: the caller of handleContainer, the goroutine of
\* each proxy, and Stop()
Tasks == {<<"hc">>, <<"main">>} \cup { <<"go", h>> : h \in H }

\* the task t is at a dw.mu.Lock()
AtLock(t) ==
  \/ t = <<"hc">> /\ hcpc = "check"
  \/ t = <<"main">> /\ ctlpc = "stop_drain"
  \/ \E h \in H : t = <<"go", h>> /\ handles[h].gpc \in {"insert", "sp_take"}

\* dw.mu.Lock() returns for the task t
Acquire(t) ==
  /\ AtLock(t)
  /\ mu = NoHolder
  /\ mu' = t
  /\ UNCHANGED <<platformVars, streamVars, mainVars, hcVars, looppc, handles,
                 proxies, cancelled, wg, stopVars>>

LockNext ==
  \/ \E c \in Containers : ContainerStart(c)
  \/ \E c \in Containers : ContainerStop(c)
  \/ ScanList
  \/ ScanNext
  \/ StartSubscribe
  \/ LoopCancel
  \/ LoopEvent
  \/ HcInspect
  \/ \E t \in Tasks : Acquire(t)
  \/ mu = <<"hc">> /\ HcCheck
  \/ \E h \in H : GoStartReturn(h)
  \/ \E h \in H : mu = <<"go", h>> /\ GoInsert(h)
  \/ \E h \in H : GoSubscribe(h)
  \/ \E h \in H : GoWatchCancel(h)
  \/ \E h \in H : GoWatchEvent(h)
  \/ \E h \in H : mu = <<"go", h>> /\ GoSpTake(h)
  \/ \E h \in H : GoSpStop(h)
  \/ \E h \in H : GoSpStopReturn(h)
  \/ MainSignal
  \/ mu = <<"main">> /\ StopDrain
  \/ \E p \in H : DrainStopCall(p)
  \/ \E p \in H : DrainStopReturn(p)
  \/ StopClose
  \/ StopReturn

LockSpec == Init /\ [][LockNext]_vars

(* ---------------------------------------------------------------------- *)
(* Properties                                                               *)
(* ---------------------------------------------------------------------- *)
\* the proxies made for container c: each had Start() called once
HandlesOf(c) == { h \in H : handles[h].cid = c }

\* Stop() has returned to main
Returned == ctlpc \in {"main_select", "complete"}

\* C1: as long as no container has stopped, the start notifications handled
\* for one identity lead to at most one proxy and one Start() call for it.
C1_OneStartPerIdentity ==
  stops = 0 => \A c \in Containers : Cardinality(HandlesOf(c)) <= 1

\* C2, in every state: no proxy has had Stop() called twice; the proxy a
\* stopProxy took out of the registry is not in the registry, has had no
\* Stop() before stopProxy calls it and exactly one after.
C2_TakenStoppedOnce ==
  \A h \in H :
    /\ handles[h].stopCalls <= 1
    /\ handles[h].gpc = "sp_stop" =>
         /\ handles[h].taken # 0
         /\ handles[handles[h].taken].stopCalls = 0
         /\ proxies[handles[h].cid] # handles[h].taken
    /\ (handles[h].gpc \in {"sp_wait", "exited"} /\ handles[h].taken # 0) =>
         handles[handles[h].taken].stopCalls = 1

\* C2, in every step of stopProxy under the lock: a registered identity is
\* removed and its proxy is the one that will be stopped; an absent identity
\* leaves the registry and every proxy as they are, and stopProxy returns.
C2_TakeStep ==
  \A h \in H :
    (handles[h].gpc = "sp_take" /\ handles'[h].gpc # "sp_take") =>
      IF proxies[handles[h].cid] # 0
        THEN /\ proxies'[handles[h].cid] = 0
             /\ handles'[h].taken = proxies[handles[h].cid]
             /\ handles'[h].gpc = "sp_stop"
        ELSE /\ proxies' = proxies
             /\ handles'[h].gpc = "exited"
             /\ \A k \in H : handles'[k].stopCalls = handles[k].stopCalls

\* C2: a stop, die or kill event for a registered identity removes it and
\* stops the registered proxy exactly once; a later stopProxy for the same
\* identity finds it absent, calls no Stop() and leaves the registry alone.
C2_StopOnce == [](C2_TakenStoppedOnce) /\ [][C2_TakeStep]_vars

\* two watchers of one identity have handled its stop event: one took the
\* registered proxy and stopped it, the other found the identity absent
C2_Witness ==
  \E h, k \in H :
    /\ h # k
    /\ handles[h].cid = handles[k].cid
    /\ handles[h].gpc = "exited" /\ handles[h].taken # 0
    /\ handles[handles[h].taken].stop = "stopped"
    /\ handles[k].gpc = "exited" /\ handles[k].taken = 0
    /\ handles[k].st = "ok" /\ ~handles[k].serr /\ ~cancelled
    /\ proxies[handles[h].cid] = 0

\* C3: when Stop() has returned, the registry is empty and every proxy that
\* Stop() found registered has had Stop() called.
C3_StopLeavesNothing ==
  Returned => /\ \A c \in Containers : proxies[c] = 0
              /\ \A h \in toStop : handles[h].stopCalls >= 1

\* C4: a proxy that started for a container that then is not running is
\* eventually stopped and out of the registry, unless the watcher shuts down.
C4_StoppedContainerLosesProxy ==
  \A h \in HandleIds :
    (h \in H /\ handles[h].st = "ok" /\ ~running[handles[h].cid] /\ ~cancelled)
      ~> (cancelled \/ (h \in H /\ handles[h].stopCalls >= 1
                          /\ proxies[handles[h].cid] # h))

\* C5: at most one proxy of an identity has started and has not been stopped.
C5_OneLiveHandle ==
  \A c \in Containers :
    Cardinality({ h \in HandlesOf(c) :
                    handles[h].st = "ok" /\ handles[h].stopCalls = 0 }) <= 1

\* C6: every proxy in the registry is registered under its own identity, its
\* Start() has returned success and its Stop() has not been called.
C6_RegisteredIsRunning ==
  \A c \in Containers :
    proxies[c] # 0 =>
      /\ proxies[c] \in H
      /\ handles[proxies[c]].cid = c
      /\ handles[proxies[c]].st = "ok"
      /\ handles[proxies[c]].stopCalls = 0

\* one proxy is registered while another one, taken out of the registry, has
\* been stopped
C6_Witness ==
  /\ \E c \in Containers : proxies[c] # 0
  /\ \E h \in H : handles[h].stopCalls = 1

\* every task the watcher spawned has exited
AllExited ==
  /\ looppc = "exited"
  /\ hcpc = "idle"
  /\ \A h \in H : handles[h].gpc = "exited"

\* C7: Stop() returns only after the event loop, every proxy-start goroutine
\* and every stop watcher have exited, and no watcher task takes a step after.
C7_StopWaitsForTasks ==
  /\ [](Returned => AllExited)
  /\ [][Returned => (handles' = handles /\ looppc' = looppc /\ hcpc' = hcpc
                       /\ proxies' = proxies /\ wg' = wg)]_vars

\* Stop() has returned after goroutines of two proxies ran: a stop watcher
\* that left on the cancellation and a start that failed
C7_Witness ==
  /\ Returned
  /\ \E h \in H : handles[h].st = "ok" /\ handles[h].sub
  /\ \E h \in H : handles[h].st = "err"

\* the shutdown signal has been received and no proxy start can be pending
ShutdownBegun ==
  /\ ctlpc \in {"stop_drain", "stop_wait", "stop_wgwait"}
  /\ hcpc = "idle"
  /\ looppc = "exited"
  /\ \A h \in H : handles[h].gpc # "start"

\* C8: after the shutdown signal main reaches "Shutdown complete", also when
\* the Stop() of a proxy of the Docker watcher never returns.
C8_ShutdownCompletes == ShutdownBegun ~> (ctlpc = "complete")

\* the webtail.enabled label is there and spells true in some case
EnabledByLabel(m) ==
  /\ labelEnabled \in DOMAIN m.labels
  /\ LET v == m.labels[labelEnabled]
     IN /\ Len(v) = 4
        /\ v[1] \in {"t", "T"}
        /\ v[2] \in {"r", "R"}
        /\ v[3] \in {"u", "U"}
        /\ v[4] \in {"e", "E"}

\* C9, in every state: handleContainer goes past the labels, and a proxy
\* exists, only for a container whose webtail.enabled spells true.
C9_OnlyEnabledHandled ==
  /\ hcpc = "check" => EnabledByLabel(meta[hcId])
  /\ \A h \in H : EnabledByLabel(meta[handles[h].cid])

\* C9, in every step taken while handleContainer inspects a container that
\* is not enabled: it returns or still inspects, no proxy is made, no
\* Start() is called and the registry is unchanged.
C9_SkipStep ==
  (hcpc = "inspect" /\ ~EnabledByLabel(meta[hcId])) =>
    /\ hcpc' \in {"inspect", "idle"}
    /\ Len(handles') = Len(handles)
    /\ proxies' = proxies
    /\ wg' = wg

\* C9: a container whose webtail.enabled label is absent or is not "true" in
\* any case gets no proxy, no Start() call and no registry change, whatever
\* its other labels and exposed ports.
C9_DisabledIsSkipped == [](C9_OnlyEnabledHandled) /\ [][C9_SkipStep]_vars

\* handleContainer has returned for a container with webtail.enabled "yes",
\* a port label and exposed ports, and nothing was made
C9_Witness ==
  /\ ctlpc = "scan" /\ hcpc = "idle" /\ scanList = <<>> /\ hcId = "c1"
  /\ labelEnabled \in DOMAIN meta["c1"].labels
  /\ meta["c1"].labels[labelEnabled] = <<"y","e","s">>
  /\ labelPort \in DOMAIN meta["c1"].labels
  /\ meta["c1"].labels[labelPort] # <<>>
  /\ meta["c1"].exposed # {}
  /\ handles = <<>>

\* the number a decimal string spells
DigitValue(ch) == (CHOOSE i \in 1..10 : Digits[i] = ch) - 1

RECURSIVE DecimalValue(_)
DecimalValue(s) ==
  IF s = <<>> THEN 0
  ELSE 10 * DecimalValue(SubSeq(s, 1, Len(s) - 1)) + DigitValue(s[Len(s)])

\* the exposed port numbers above zero
PositivePorts(m) == { p.num : p \in { q \in m.exposed : q.num > 0 } }

\* C10: the port of an eligible container is its non-empty webtail.port
\* label; without one it is the lowest exposed port number above zero.
C10_LowestExposedPort ==
  hcpc = "check" =>
    LET m == meta[hcId]
    IN IF labelPort \in DOMAIN m.labels /\ m.labels[labelPort] # <<>>
         THEN hcCfg.port = m.labels[labelPort]
         ELSE /\ PositivePorts(m) # {}
              /\ DecimalValue(hcCfg.port) \in PositivePorts(m)
              /\ \A n \in PositivePorts(m) : DecimalValue(hcCfg.port) <= n

\* port 80 was detected for a container that exposes 0, 443 and 80 and has
\* an empty webtail.port label
C10_Witness ==
  /\ hcpc = "check"
  /\ hcCfg.port = <<"8","0">>
  /\ meta[hcId].exposed = {Port(0), Port(443), Port(80)}
  /\ labelPort \in DOMAIN meta[hcId].labels
  /\ meta[hcId].labels[labelPort] = <<>>

\* the container is enabled and has neither a webtail.port value nor an
\* exposed port above zero
NoUsablePort(m) ==
  /\ EnabledByLabel(m)
  /\ labelPort \in DOMAIN m.labels => m.labels[labelPort] = <<>>
  /\ PositivePorts(m) = {}

\* C11, in every state: handleContainer goes past the port, and a proxy
\* exists, only for a container with a port label or a usable exposed port.
C11_NoPortNotHandled ==
  /\ hcpc = "check" => ~NoUsablePort(meta[hcId])
  /\ \A h \in H : ~NoUsablePort(meta[handles[h].cid])

\* C11, in every step taken while handleContainer inspects an enabled
\* container with no port: it still inspects or it returns, by the return
\* nil of the missing port unless the inspection itself failed; no proxy is
\* made, no Start() is called and the registry is unchanged.
C11_NoPortStep ==
  (hcpc = "inspect" /\ NoUsablePort(meta[hcId])) =>
    /\ hcpc' \in {"inspect", "idle"}
    /\ hcpc' = "idle" => hcCfg'.reason \in {"noport", "error"}
    /\ Len(handles') = Len(handles)
    /\ proxies' = proxies
    /\ wg' = wg

\* C11: an enabled container with no webtail.port label and no exposed port
\* above zero is not eligible: handleContainer returns no error, makes no
\* proxy, calls no Start() and leaves the registry unchanged.
C11_NoPortIsNotEligible == [](C11_NoPortNotHandled) /\ [][C11_NoPortStep]_vars

\* handleContainer has returned nil at the missing port for an enabled
\* container that exposes only port 0, and nothing was made
C11_Witness ==
  /\ hcpc = "idle" /\ hcId = "c1" /\ hcCfg.reason = "noport"
  /\ meta["c1"].exposed = {Port(0)}
  /\ labelPort \notin DOMAIN meta["c1"].labels
  /\ handles = <<>>
  /\ proxies = [c \in Containers |-> 0]

\* the forwarding-flag labels with the field of the ServiceConfig each sets
FlagLabels == {labelPassHostHeader, labelTrustForwardHeader}
FlagOf(cfg, k) ==
  IF k = labelPassHostHeader THEN cfg.PassHostHeader ELSE cfg.TrustForwardHeader

\* the label value is one of 1, t, T, TRUE, true, True
SpellsTrue(v) ==
  \/ Len(v) = 1 /\ v[1] \in {"1", "t", "T"}
  \/ /\ Len(v) = 4
     /\ \/ v[1] = "t" /\ v[2] = "r" /\ v[3] = "u" /\ v[4] = "e"
        \/ v[1] = "T" /\ v[2] = "R" /\ v[3] = "U" /\ v[4] = "E"
        \/ v[1] = "T" /\ v[2] = "r" /\ v[3] = "u" /\ v[4] = "e"

\* C12 as stated: for each forwarding-flag label, every value other than
\* "true" and "false", the empty string and an absent label included,
\* resolves to the flag value false.
C12_OnlyTrueAndFalseParsed ==
  hcpc = "check" =>
    \A k \in FlagLabels :
      (k \notin DOMAIN meta[hcId].labels
         \/ meta[hcId].labels[k] \notin {STrue, SFalse})
        => FlagOf(hcCfg, k) = FALSE

\* C12 amended: each forwarding flag is true exactly when its label is there
\* and spells 1, t, T, TRUE, true or True; every other value, the empty
\* string and an absent label included, resolves to false.
C12_FlagParsedAsBool ==
  hcpc = "check" =>
    \A k \in FlagLabels :
      FlagOf(hcCfg, k) =
        (k \in DOMAIN meta[hcId].labels /\ SpellsTrue(meta[hcId].labels[k]))

\* pass_host_header "yes" resolved to false next to trust_forward_header "1"
\* resolved to true
C12_Witness ==
  /\ hcpc = "check"
  /\ labelPassHostHeader \in DOMAIN meta[hcId].labels
  /\ meta[hcId].labels[labelPassHostHeader] = <<"y","e","s">>
  /\ hcCfg.PassHostHeader = FALSE
  /\ labelTrustForwardHeader \in DOMAIN meta[hcId].labels
  /\ meta[hcId].labels[labelTrustForwardHeader] = <<"1">>
  /\ hcCfg.TrustForwardHeader = TRUE

\* the value of label k, or dflt when the label is absent or empty
LabelOr(m, k, dflt) ==
  IF k \in DOMAIN m.labels /\ Len(m.labels[k]) > 0 THEN m.labels[k] ELSE dflt

\* the inspected name without its leading "/"
Stripped(name) ==
  IF Len(name) > 0 /\ name[1] = "/" THEN SubSeq(name, 2, Len(name)) ELSE name

\* t reads scheme "://" host "." network ":" port, piece by piece
ReadsAsTarget(t, scheme, host, network, port) ==
  LET a == Len(scheme)
      b == a + 3 + Len(host)
      c == b + 1 + Len(network)
  IN /\ Len(t) = c + 1 + Len(port)
     /\ SubSeq(t, 1, a) = scheme
     /\ t[a + 1] = ":" /\ t[a + 2] = "/" /\ t[a + 3] = "/"
     /\ SubSeq(t, a + 4, b) = host
     /\ t[b + 1] = "."
     /\ SubSeq(t, b + 2, c) = network
     /\ t[c + 1] = ":"
     /\ SubSeq(t, c + 2, Len(t)) = port

\* the container of the example: enabled "true" and no other label, port
\* 8080 exposed, name "app"
IsExample(m) ==
  /\ DOMAIN m.labels = {labelEnabled}
  /\ m.labels[labelEnabled] = <<"t","r","u","e">>
  /\ m.exposed = {[num |-> 8080, proto |-> "tcp"]}
  /\ m.name = <<"a","p","p">>

\* C13: the target of an eligible container is scheme://name.network:port
\* with the name stripped of its leading "/", the scheme of webtail.protocol
\* or "http", and the node name of webtail.node_name or the stripped name;
\* the example gives http://app.net:8080, node name app and both flags false.
C13_TargetAndNodeName ==
  hcpc = "check" =>
    LET m == meta[hcId]
    IN /\ ReadsAsTarget(hcCfg.Target,
                        LabelOr(m, labelProtocol, <<"h","t","t","p">>),
                        Stripped(m.name), <<"n","e","t">>, hcCfg.port)
       /\ hcCfg.NodeName = LabelOr(m, labelNodeName, Stripped(m.name))
       /\ IsExample(m) =>
            /\ hcCfg.Target = <<"h","t","t","p",":","/","/","a","p","p",".",
                                "n","e","t",":","8","0","8","0">>
            /\ hcCfg.NodeName = <<"a","p","p">>
            /\ ~hcCfg.PassHostHeader /\ ~hcCfg.TrustForwardHeader

\* the container of the example has been resolved
C13_Witness ==
  /\ hcpc = "check"
  /\ IsExample(meta[hcId])
  /\ hcCfg.NodeName = <<"a","p","p">>

\* C14: a stop watcher that has exited after its event stream ended, the
\* watcher not being cancelled, has torn down: its proxy is out of the
\* registry and has had Stop() called.
C14_StreamEndTearsDown ==
  \A h \in H :
    (handles[h].gpc = "exited" /\ handles[h].serr /\ ~cancelled) =>
      /\ proxies[handles[h].cid] # h
      /\ \E k \in HandlesOf(handles[h].cid) : handles[k].stopCalls >= 1

\* C15: once the cancellation has fired, a stop watcher in its select only
\* exits; it never goes on to stopProxy, also with a stop event deliverable.
C15_CancelledWatcherOnlyExits ==
  [][\A h \in H :
       (cancelled /\ handles[h].gpc = "watch") =>
         handles'[h].gpc \in {"watch", "exited"}]_vars

\* C16: while a container inspection is in progress and a next event has
\* been delivered, the event loop is at its select and can receive it.
C16_LoopReceivesWhileInspecting ==
  (hcpc = "inspect" /\ evq # <<>>) => looppc = "select"

\* C17, in every state: a loop that has exited saw the cancellation or the
\* error of its stream.
C17_ExitedOnCancelOrError == looppc = "exited" => (cancelled \/ streamErr)

\* C17, in every step: the step by which the loop exits leaves the proxies,
\* their stop watchers and the registry as they are; after the exit the loop
\* stays exited, there is no new subscription, no start event is delivered
\* or handled and no proxy is made.
C17_LoopExitStep ==
  /\ (looppc # "exited" /\ looppc' = "exited") =>
       (handles' = handles /\ proxies' = proxies)
  /\ looppc = "exited" =>
       /\ looppc' = "exited"
       /\ subscribed' = subscribed
       /\ evq' = evq
       /\ hcpc' = "idle"
       /\ Len(handles') = Len(handles)

\* C17: the event loop exits on the cancellation or on the error of its
\* subscription; after a stream error it never resubscribes, no later start
\* event makes a proxy, and the watchers and registry entries there are stay.
C17_LoopExitsForGood ==
  [](C17_ExitedOnCancelOrError) /\ [][C17_LoopExitStep]_vars

\* the loop has exited on a stream error, without cancellation, while a
\* registered proxy has its stop watcher watching
C17_Witness ==
  /\ looppc = "exited" /\ streamErr /\ ~cancelled
  /\ \E h \in H : handles[h].gpc = "watch" /\ proxies[handles[h].cid] = h

\* C18, in every state: during the scan there is no subscription, no event
\* loop and no delivered event; with the subscription made, no listed
\* container is left unhandled.
C18_ScanThenSubscribe ==
  /\ ctlpc \in {"start", "scan"} =>
       (~subscribed /\ looppc = "none" /\ evq = <<>>)
  /\ subscribed => (scanList = <<>> /\ ctlpc \notin {"start", "scan"})

\* C18, in every step: the list, failed or not, leads to the scan loop; a
\* listed container leaves the list only by being passed to handleContainer;
\* the subscription is made only with the list empty and the last
\* handleContainer returned, whatever it returned.
C18_ScanStep ==
  /\ ctlpc = "start" => ctlpc' \in {"start", "scan"}
  /\ (ctlpc = "scan" /\ scanList' # scanList) =>
       /\ scanList' = Tail(scanList)
       /\ hcpc = "idle" /\ hcpc' = "inspect"
       /\ hcId' = Head(scanList)
  /\ (~subscribed /\ subscribed') =>
       (ctlpc = "scan" /\ scanList = <<>> /\ hcpc = "idle")

\* C18: Start() scans before it subscribes: every listed container goes
\* through handleContainer before the subscription, and a failed list or a
\* failed container prevents neither the rest of the scan nor the
\* subscription.
C18_ScanBeforeSubscribe ==
  [](C18_ScanThenSubscribe) /\ [][C18_ScanStep]_vars

\* in the scan, before the subscription, the inspection of a listed
\* container has failed and another listed container is still to be handled
C18_Witness ==
  /\ ctlpc = "scan" /\ ~subscribed
  /\ hcpc = "idle" /\ hcCfg.reason = "error"
  /\ scanList # <<>>
  /\ handles = <<>>

\* C19, in every state: a proxy whose Start() returned an error is not in
\* the registry, is not among the proxies Stop() collected, has no stop
\* watcher and has had no Stop() call; its goroutine has exited.
C19_FailedStartDiscarded ==
  \A h \in H :
    handles[h].st = "err" =>
      /\ handles[h].gpc = "exited"
      /\ ~handles[h].sub
      /\ handles[h].stopCalls = 0
      /\ handles[h].taken = 0
      /\ h \notin toStop
      /\ \A c \in Containers : proxies[c] # h

\* C19, in every step by which a Start() returns an error: the registry,
\* the event loop, the running handleContainer and the delivered events are
\* unchanged.
C19_FailedStartStep ==
  \A h \in H :
    (handles[h].st = "calling" /\ handles'[h].st = "err") =>
      /\ proxies' = proxies
      /\ looppc' = looppc
      /\ hcpc' = hcpc
      /\ evq' = evq

\* C19: a proxy whose Start() fails is discarded: never registered, never
\* watched, never stopped, the registry and the loop untouched; a later
\* start event for the identity is handled afresh.
C19_FailedStartIsDiscarded ==
  [](C19_FailedStartDiscarded) /\ [][C19_FailedStartStep]_vars

\* after the failed Start() of a first proxy, a later start event of the
\* same container got a second proxy, which started and is registered
C19_Witness ==
  \E h, k \in H :
    /\ h < k
    /\ handles[h].cid = handles[k].cid
    /\ handles[h].st = "err"
    /\ handles[k].st = "ok"
    /\ proxies[handles[k].cid] = k
    /\ looppc = "select"

\* C20: in the step by which handleContainer returns the error of a failed
\* inspection, no proxy is made or started, the registry, the scan list and
\* the delivered events are unchanged, and the caller goes on: the event
\* loop is back at its select, the scan and main are where they were.
C20_InspectFailureStep ==
  (hcpc = "inspect" /\ hcpc' = "idle" /\ hcCfg'.reason = "error") =>
    /\ handles' = handles
    /\ proxies' = proxies
    /\ wg' = wg
    /\ scanList' = scanList
    /\ evq' = evq
    /\ ctlpc' = ctlpc
    /\ looppc' = IF looppc = "handling" THEN "select" ELSE looppc

\* C20: a failed inspection aborts handleContainer for that identity only.
C20_InspectFailureIsLocal == [][C20_InspectFailureStep]_vars

\* the inspection of a running container's start event has failed: it has
\* no proxy, and the loop is at its select with the next event to receive
C20_Witness ==
  /\ hcpc = "idle" /\ hcCfg.reason = "error"
  /\ running[hcId] /\ HandlesOf(hcId) = {}
  /\ looppc = "select" /\ evq # <<>> /\ ~cancelled /\ ~streamErr

\* C21: the task that holds dw.mu is at a read or a change of the registry:
\* the caller of handleContainer at the duplicate guard (not in the
\* inspection, not back in the loop or the scan), a proxy goroutine at the
\* insertion or at the lookup of stopProxy (not in Start(), not at its event
\* stream, not in Stop()), Stop() at the drain (not waiting for the Stop()
\* calls or the tasks); a task that has left the registry access has
\* released the lock.
C21_LockOnlyAroundRegistry ==
  /\ mu \in Tasks \cup {NoHolder}
  /\ mu = <<"hc">> => hcpc = "check"
  /\ mu = <<"main">> => ctlpc = "stop_drain"
  /\ \A h \in H :
       mu = <<"go", h>> => handles[h].gpc \in {"insert", "sp_take"}

\* the goroutine of one proxy holds the lock in stopProxy while the Start()
\* of another proxy is in flight
C21_Witness ==
  \E h, k \in H :
    /\ mu = <<"go", h>> /\ handles[h].gpc = "sp_take"
    /\ handles[k].gpc = "start"

\* the stop watchers whose stopProxy took the proxy p out of the registry
TakersOf(p) == { h \in H : handles[h].taken = p }

\* C22: every proxy was taken out of the registry by at most one of the
\* stopProxy calls and the drain of Stop() together, has had at most one
\* Stop() call, and that call came from the one that took it.
C22_OneTakerOneStop ==
  \A p \in H :
    /\ Cardinality(TakersOf(p)) + (IF p \in toStop THEN 1 ELSE 0) <= 1
    /\ handles[p].stopCalls <= 1
    /\ handles[p].stopCalls = 1 =>
         \/ p \in toStop
         \/ \E h \in TakersOf(p) : handles[h].gpc \in {"sp_wait", "exited"}

\* the drain of Stop() took a proxy and called its Stop() while the proxy's
\* own stop watcher, with a stop event received, is about to look it up
C22_Witness ==
  \E h \in H :
    /\ h \in toStop
    /\ handles[h].stopCalls = 1
    /\ handles[h].gpc = "sp_take"

\* no proxy has started or is starting: no container was handled as far as
\* a proxy, or every Start() returned an error
NothingStarted == \A h \in H : handles[h].st = "err"

C24_ClientClosedOnceAtEnd ==
  /\ clientClosed <= 1
  /\ clientClosed = 1 =>
       /\ cancelled
       /\ ctlpc \notin {"stop_drain", "stop_wait"}
       /\ \A p \in toStop : /\ handles[p].stopCalls = 1
                            /\ handles[p].stop = "stopped"
  /\ Returned => clientClosed = 1

\* the client is closed after Stop() collected and stopped two handles
C24_Witness ==
  /\ clientClosed = 1
  /\ Cardinality(toStop) = 2

\* C25: once the cancellation has been sent, every goroutine that is inside
\* proxy.Start() leaves it, so that dw.wg can reach zero and Stop() return.
C25_CancelUnblocksStart ==
  cancelled ~> (\A h \in H : handles[h].gpc # "start")

\* C26: when Stop() has returned, no proxy that started is in the registry
\* and every proxy that started has had Stop() called, whether Stop() found
\* it registered or its Start() returned after the registry was emptied.
C26_EveryStartedHandleStopped ==
  Returned =>
    \A h \in H :
      handles[h].st = "ok" =>
        /\ proxies[handles[h].cid] # h
        /\ handles[h].stopCalls >= 1

\* container c is in the list the scan has still to go through
Listed(c) == \E i \in 1..Len(scanList) : scanList[i] = c

\* the scan has its list and has passed nothing to handleContainer yet, and
\* container c, which is not in the list, is running: it started after the
\* list call and before the subscription
StartedAfterList(c) ==
  /\ ctlpc = "scan"
  /\ hcId = ""
  /\ scanList # <<>>
  /\ running[c]
  /\ ~Listed(c)

\* C27: a container that started between the list call of the scan and the
\* subscription of Start() is eventually passed to handleContainer, unless
\* it stops, the stream of Start() fails or the watcher is shut down.
C27_StartedAfterListNotMissed ==
  \A c \in Containers :
    StartedAfterList(c) ~>
      (hcId = c \/ ~running[c] \/ streamErr \/ cancelled)

====
